---------------------------- MODULE Spec2Model ----------------------------
(***************************************************************************)
(* Model of streetspace/geometry.py: linear referencing and segmentation   *)
(* of polylines, the nearest-line search, clipping by a polygon, azimuths, *)
(* points spaced along a line, extending and shortening a line, and the    *)
(* splitting of a row's line into pieces of equal length.                  *)
(*                                                                         *)
(* Geometry is modelled exactly on an integer lattice.  A coordinate is a  *)
(* pair <<x, y>> of integers and a LineString is a sequence of lattice     *)
(* coordinates whose consecutive vertices differ along one axis only, so   *)
(* that arc lengths, projections and interpolations at integer distances   *)
(* are integers.  LineStrings are simple (non self-intersecting), open or  *)
(* closed (first coordinate = last coordinate), as the library assumes.    *)
(* Supplied points are arbitrary lattice points, on or off the line.       *)
(***************************************************************************)
EXTENDS Integers, Sequences, FiniteSets, Bags, TLC

VARIABLES
    op,          \* the function that produced `result` ("idle" before any call)
    linestring,  \* argument `linestring`
    points,      \* argument `points` (for segment: <<u, v>>)
    dists,       \* argument `dists` of split_line_at_dists
    prior,       \* the result of the preceding split (re-split scenario)
    search_point,    \* argument `search_point` of closest_point_along_lines
    lines,           \* argument `lines`: geometries, or (index, geometry) tuples
    search_distance, \* argument `search_distance`, or None
    sindex,          \* argument `sindex`, or None
    line_tuples,     \* closest_point_along_lines: the pared candidate list
    args,        \* the remaining arguments of the call, by name
    result       \* the returned value

splitVars == <<linestring, points, dists, prior>>
nearVars == <<search_point, lines, search_distance, sindex, line_tuples>>
vars == <<op, splitVars, nearVars, args, result>>

-----------------------------------------------------------------------------
(* Bounds of the model *)

GridX == 2
GridY == 1
MaxVerts == 5
MaxPts == 2
MaxLines == 2
MaxLineVerts == 2
MaxRadius == 2
PolyMargin == 1
AngleStep == 10
MaxAngleSteps == 40
MaxSpacing == 3
MaxExtend == 2
MaxMinLength == 3

-----------------------------------------------------------------------------
(* Integer helpers *)

Abs(n) == IF n < 0 THEN -n ELSE n
Min(a, b) == IF a <= b THEN a ELSE b
Max(a, b) == IF a >= b THEN a ELSE b
Clamp(v, lo, hi) == Max(lo, Min(v, hi))

Lattice == (0..GridX) \X (0..GridY)

(* Squared Euclidean distance between two coordinates *)
Dist2(a, b) == (a[1] - b[1]) * (a[1] - b[1]) + (a[2] - b[2]) * (a[2] - b[2])

(* Python's tuple comparison a < b on equal-length tuples of numbers *)
RECURSIVE TupleLess(_, _)
TupleLess(a, b) ==
    IF a = <<>> \/ b = <<>> THEN a = <<>> /\ b # <<>>
    ELSE IF Head(a) # Head(b) THEN Head(a) < Head(b)
    ELSE TupleLess(Tail(a), Tail(b))

(* Insert x into the sorted sequence s after every element not greater *)
RECURSIVE Insert(_, _)
Insert(s, x) ==
    IF s = <<>> THEN <<x>>
    ELSE IF TupleLess(x, Head(s)) THEN <<x>> \o s
    ELSE <<Head(s)>> \o Insert(Tail(s), x)

(* Variant: the list is left in first-seen order *)
unsorted(s) == s

(* Python's sorted() on a list of tuples: stable, ascending tuple order *)
RECURSIVE sorted(_)
sorted(s) ==
    IF s = <<>> THEN <<>>
    ELSE Insert(sorted(SubSeq(s, 1, Len(s) - 1)), s[Len(s)])

-----------------------------------------------------------------------------
(* LineStrings *)

(* The lattice points of the straight axis-parallel edge from a to b *)
EdgePoints(a, b) ==
    { p \in Lattice :
        /\ Min(a[1], b[1]) <= p[1] /\ p[1] <= Max(a[1], b[1])
        /\ Min(a[2], b[2]) <= p[2] /\ p[2] <= Max(a[2], b[2]) }

AxisStep(a, b) == a # b /\ (a[1] = b[1] \/ a[2] = b[2])

(* c \o <<p>> is again a simple line: the new edge touches the line only at *)
(* its own start, or closes the line onto its first coordinate.            *)
Extends(c, p) ==
    LET n == Len(c)
        e == EdgePoints(c[n], p)
    IN  /\ AxisStep(c[n], p)
        /\ n = 1 \/ c[1] # c[n]
        /\ \A i \in 1..(n - 1) :
              LET f == EdgePoints(c[i], c[i + 1])
              IN  IF i = n - 1 THEN e \cap f = {c[n]}
                  ELSE IF i = 1 /\ p = c[1] THEN e \cap f = {c[1]}
                  ELSE e \cap f = {}

RECURSIVE LinesOfLen(_)
LinesOfLen(n) ==
    IF n = 1 THEN { <<p>> : p \in Lattice }
    ELSE UNION { { Append(c, p) : p \in { q \in Lattice : Extends(c, q) } } :
                 c \in LinesOfLen(n - 1) }

(* Every simple LineString of 2..MaxVerts coordinates on the lattice *)
LineStrings == UNION { LinesOfLen(n) : n \in 2..MaxVerts }

EdgeLen(a, b) == Abs(a[1] - b[1]) + Abs(a[2] - b[2])

(* Arc length of the line c at its i-th vertex *)
RECURSIVE CumLen(_, _)
CumLen(c, i) == IF i <= 1 THEN 0 ELSE CumLen(c, i - 1) + EdgeLen(c[i - 1], c[i])

(* linestring.length *)
Length(c) == CumLen(c, Len(c))

(* The position of edge a-b closest to p *)
Nearest(a, b, p) ==
    << Clamp(p[1], Min(a[1], b[1]), Max(a[1], b[1])),
       Clamp(p[2], Min(a[2], b[2]), Max(a[2], b[2])) >>

(* Squared distance from p to edge i of c *)
EdgeDist2(c, i, p) == Dist2(p, Nearest(c[i], c[i + 1], p))

(* Squared distance from p to the line c: search_point.distance(line) *)
LineDist2(c, p) ==
    LET ds == { EdgeDist2(c, i, p) : i \in 1..(Len(c) - 1) }
    IN  CHOOSE d \in ds : \A e \in ds : d <= e

(* linestring.project(Point(p)): the arc length of the position of c closest *)
(* to p; among equally close edges the first along the line is taken.      *)
Project(c, p) ==
    LET m == LineDist2(c, p)
        i == CHOOSE k \in 1..(Len(c) - 1) :
                 /\ EdgeDist2(c, k, p) = m
                 /\ \A j \in 1..(k - 1) : EdgeDist2(c, j, p) > m
    IN  CumLen(c, i) + EdgeLen(c[i], Nearest(c[i], c[i + 1], p))

Sign(n) == IF n > 0 THEN 1 ELSE IF n < 0 THEN -1 ELSE 0

(* linestring.interpolate(d): the coordinate at arc length d, with d beyond *)
(* the end of the line clamped to the end.                                 *)
Interpolate(c, d) ==
    LET dd == Clamp(d, 0, Length(c))
        i  == CHOOSE k \in 1..(Len(c) - 1) :
                 /\ CumLen(c, k + 1) >= dd
                 /\ \A j \in 1..(k - 1) : CumLen(c, j + 1) < dd
        r  == dd - CumLen(c, i)
    IN  << c[i][1] + r * Sign(c[i + 1][1] - c[i][1]),
           c[i][2] + r * Sign(c[i + 1][2] - c[i][2]) >>

(* p lies on the line c *)
OnLine(c, p) == LineDist2(c, p) = 0

(* The exact Euclidean length of an arbitrary coordinate sequence, as the   *)
(* bag r :> k standing for the sum of k * sqrt(r) over square-free r.  Two *)
(* lengths are equal as real numbers exactly when their bags are equal.    *)
StepLength(a, b) ==
    LET q == Dist2(a, b)
        k == CHOOSE m \in 0..q :
                 /\ m * m <= q
                 /\ (m = 0 \/ q % (m * m) = 0)
                 /\ \A n \in (m + 1)..q : n * n > q \/ q % (n * n) # 0
    IN  IF q = 0 THEN EmptyBag ELSE (q \div (k * k)) :> k

RECURSIVE GeomLength(_)
GeomLength(cs) ==
    IF Len(cs) < 2 THEN EmptyBag
    ELSE StepLength(cs[1], cs[2]) (+) GeomLength(Tail(cs))

RECURSIVE TotalLength(_)
TotalLength(segs) ==
    IF segs = <<>> THEN EmptyBag
    ELSE GeomLength(Head(segs)) (+) TotalLength(Tail(segs))

Reverse(s) == [i \in 1..Len(s) |-> s[Len(s) + 1 - i]]

-----------------------------------------------------------------------------
(* split_line_at_points *)

(* Variant: the supplied points are replaced by their projections on the line *)
SplitCoordsProjected(line, pts) ==
    SubSeq(line, 1, Len(line) - 1)
        \o [i \in 1..Len(pts) |-> Interpolate(line, Project(line, pts[i]))]

(* coords after `coords = coords[0:-1]` and `coords += [points...]` *)
SplitCoords(line, pts) == SubSeq(line, 1, Len(line) - 1) \o pts

(* Variant: every coordinate is flagged as a cut *)
SplitCutsAllVertices(line, pts) ==
    [i \in 1..(Len(line) - 1 + Len(pts)) |-> 1]

(* Variant: `cuts[0] = 1` is left out *)
SplitCutsNoStart(line, pts) ==
    [i \in 1..(Len(line) - 1 + Len(pts)) |-> IF i > Len(line) - 1 THEN 1 ELSE 0]

(* Variant: the supplied points are not flagged as cuts *)
SplitCutsNoPoints(line, pts) ==
    [i \in 1..(Len(line) - 1 + Len(pts)) |-> IF i = 1 THEN 1 ELSE 0]

(* cuts after `cuts[0] = 1` and `cuts += [1] * len(points)` *)
SplitCuts(line, pts) ==
    [i \in 1..(Len(line) - 1 + Len(pts)) |->
        IF i = 1 \/ i > Len(line) - 1 THEN 1 ELSE 0]

(* dists = [linestring.project(Point(p)) for p in coords] *)
SplitDists(line, pts) ==
    LET coords == SplitCoords(line, pts)
    IN  [i \in 1..Len(coords) |-> Project(line, coords[i])]

(* [p for (d, p) in sorted(zip(dists, coords))] + [last_coord] *)
SortedCoords(line, pts) ==
    LET coords == SplitCoords(line, pts)
        ds     == SplitDists(line, pts)
        zipped == [i \in 1..Len(coords) |-> <<ds[i]>> \o coords[i]]
        srt    == sorted(zipped)
    IN  [i \in 1..Len(srt) |-> Tail(srt[i])] \o <<line[Len(line)]>>

(* [p for (d, p) in sorted(zip(dists, cuts))] + [1] *)
SortedCuts(line, pts) ==
    LET cuts   == SplitCuts(line, pts)
        ds     == SplitDists(line, pts)
        zipped == [i \in 1..Len(cuts) |-> <<ds[i], cuts[i]>>]
        srt    == sorted(zipped)
    IN  [i \in 1..Len(srt) |-> srt[i][2]] \o <<1>>

(* cuts.index(1, i + 1), in 1-based positions *)
NextCut(cuts, i) ==
    CHOOSE j \in (i + 1)..Len(cuts) :
        cuts[j] = 1 /\ \A k \in (i + 1)..(j - 1) : cuts[k] # 1

(* Variant: the slice coords[i:j] leaves out the closing coordinate *)
RECURSIVE GenerateLinesShort(_, _, _)
GenerateLinesShort(coords, cuts, i) ==
    IF i > Len(coords) - 1 THEN <<>>
    ELSE IF cuts[i] = 1
         THEN <<SubSeq(coords, i, NextCut(cuts, i) - 1)>>
                  \o GenerateLinesShort(coords, cuts, i + 1)
         ELSE GenerateLinesShort(coords, cuts, i + 1)

(* Variant: a cut that coincides with the previous cut is dropped *)
RECURSIVE GenerateLinesDropCoincident(_, _, _)
GenerateLinesDropCoincident(coords, cuts, i) ==
    IF i > Len(coords) - 1 THEN <<>>
    ELSE IF cuts[i] = 1 /\ coords[NextCut(cuts, i)] # coords[i]
         THEN <<SubSeq(coords, i, NextCut(cuts, i))>>
                  \o GenerateLinesDropCoincident(coords, cuts, i + 1)
         ELSE GenerateLinesDropCoincident(coords, cuts, i + 1)

(* The loop `for i in range(len(coords)-1)` from position i on *)
RECURSIVE GenerateLines(_, _, _)
GenerateLines(coords, cuts, i) ==
    IF i > Len(coords) - 1 THEN <<>>
    ELSE IF cuts[i] = 1
         THEN <<SubSeq(coords, i, NextCut(cuts, i))>>
                  \o GenerateLines(coords, cuts, i + 1)
         ELSE GenerateLines(coords, cuts, i + 1)

SplitLineAtPoints(line, pts) ==
    GenerateLines(SortedCoords(line, pts), SortedCuts(line, pts), 1)

(* Variant: a distance of 0 is skipped *)
SplitLineAtDistsSkipZero(line, ds) ==
    LET nz == SelectSeq(ds, LAMBDA x : x # 0)
    IN  SplitLineAtPoints(line, [i \in 1..Len(nz) |-> Interpolate(line, nz[i])])

(* split_line_at_dists *)
SplitLineAtDists(line, ds) ==
    SplitLineAtPoints(line, [i \in 1..Len(ds) |-> Interpolate(line, ds[i])])

(* Variant: the piece is never flipped *)
SegmentNoFlip(line, u, v) == SplitLineAtPoints(line, <<u, v>>)[2]

(* segment *)
Segment(line, u, v) ==
    LET seg == SplitLineAtPoints(line, <<u, v>>)[2]
    IN  IF seg[1] = u THEN seg ELSE Reverse(seg)

(* endpoints(linestring) *)
Endpoints(c) == <<c[1], c[Len(c)]>>

(* The values of `ends` the code tests for, and one it does not *)
EndsSelectors == {"both", "start", "end", "neither"}

(* A call that raises: the name of the exception stands where the type of   *)
(* the returned geometry would                                              *)
Raised(exception) == [type |-> exception, geoms |-> <<>>]

(* shorten_line: the segment between the points shorten_dist from the ends *)
(* it is told to shorten                                                    *)
ShortenStart(c, shorten_dist, ends) ==
    IF ends = "end" THEN Endpoints(c)[1] ELSE Interpolate(c, shorten_dist)

ShortenEnd(c, shorten_dist, ends) ==
    IF ends = "start" THEN Endpoints(c)[2]
    ELSE Interpolate(c, Length(c) - shorten_dist)

ShortenLine(c, shorten_dist, ends) ==
    IF ends \notin {"both", "start", "end"}
    THEN Raised("UnboundLocalError")
    ELSE Segment(c, ShortenStart(c, shorten_dist, ends),
                    ShortenEnd(c, shorten_dist, ends))

-----------------------------------------------------------------------------
(* closest_point_along_lines and list_sindex *)

(* Python's None, and an optional number *)
None == <<>>
Some(r) == <<r>>

(* geom.bounds: <<minx, miny, maxx, maxy>> *)
Bounds(c) ==
    LET xs == { c[k][1] : k \in 1..Len(c) }
        ys == { c[k][2] : k \in 1..Len(c) }
    IN  << CHOOSE x \in xs : \A z \in xs : x <= z,
           CHOOSE y \in ys : \A z \in ys : y <= z,
           CHOOSE x \in xs : \A z \in xs : x >= z,
           CHOOSE y \in ys : \A z \in ys : y >= z >>

(* list_sindex: entry i holds the bounds of geometry i and the object i;    *)
(* positions are Python's, counted from 0                                    *)
ListSindex(geometries) ==
    Some([k \in 1..Len(geometries) |->
             [id |-> k - 1, bounds |-> Bounds(geometries[k]), obj |-> k - 1]])

(* search_point.buffer(search_distance).bounds *)
SearchBounds(p, r) == <<p[1] - r, p[2] - r, p[1] + r, p[2] + r>>

BoxesIntersect(a, b) ==
    a[1] <= b[3] /\ b[1] <= a[3] /\ a[2] <= b[4] /\ b[2] <= a[4]

(* The objects sindex.intersection(search_bounds, objects='raw') yields; the *)
(* index yields them in an order of its own choosing                        *)
IndexHits(idx, box) ==
    LET entries == idx[1]
    IN  { entries[k].obj :
            k \in { j \in 1..Len(entries) : BoxesIntersect(entries[j].bounds, box) } }

(* Every sequence that lists the elements of the set S once *)
Orders(S) ==
    { f \in [1..Cardinality(S) -> S] : \A i, j \in 1..Cardinality(S) : f[i] = f[j] => i = j }

(* line.intersects(search_point.buffer(search_distance)) *)
IntersectsSearchArea(c, p, r) == LineDist2(c, p) <= r * r

(* The caller's identifier at position k of an (index, geometry) list *)
CallerIndex(k) == 10 * k + 7

(* An element of `lines`: a geometry, or an (index, geometry) tuple *)
Geometry(c) == [geom |-> c]
IndexedTuple(i, c) == [index |-> i, geom |-> c]
IsTuple(line) == "index" \in DOMAIN line

(* line_tuples before paring: the tuples given, or enumerate(lines) *)
LineTuples(ls) ==
    IF \A k \in 1..Len(ls) : IsTuple(ls[k])
    THEN [k \in 1..Len(ls) |-> <<ls[k].index, ls[k].geom>>]
    ELSE [k \in 1..Len(ls) |-> <<k - 1, ls[k].geom>>]

(* Python's truth value of search_distance *)
Truthy(r) == r # None /\ r # Some(0)

(* [line_tuple for line_tuple in line_tuples if line_tuple[-1].intersects(...)] *)
RECURSIVE PareByArea(_, _, _)
PareByArea(lts, p, r) ==
    IF lts = <<>> THEN <<>>
    ELSE IF IntersectsSearchArea(Head(lts)[2], p, r)
         THEN <<Head(lts)>> \o PareByArea(Tail(lts), p, r)
         ELSE PareByArea(Tail(lts), p, r)

(* The position of the last smallest distance *)
ArgMinLast(ds) ==
    CHOOSE k \in 1..Len(ds) :
        /\ \A j \in 1..Len(ds) : ds[k] <= ds[j]
        /\ \A j \in (k + 1)..Len(ds) : ds[j] > ds[k]

(* The position of the first smallest distance: distances.argsort()[0].     *)
(* The default sort behind argsort is an insertion sort on arrays this      *)
(* short, which keeps equal keys in their order.                            *)
ArgMin(ds) ==
    CHOOSE k \in 1..Len(ds) :
        /\ \A j \in 1..Len(ds) : ds[k] <= ds[j]
        /\ \A j \in 1..(k - 1) : ds[j] > ds[k]

(* A search that raises when nothing is left to measure *)
ClosestAmongRaising(p, lts) ==
    LET distances == [k \in 1..Len(lts) |-> LineDist2(lts[k][2], p)]
        w         == ArgMin(distances)
    IN  IF Len(lts) > 0
        THEN [raised      |-> "",
              match_point |-> Interpolate(lts[w][2], Project(lts[w][2], p)),
              index       |-> Some(lts[w][1]),
              distance2   |-> Some(distances[w])]
        ELSE [raised |-> "IndexError", match_point |-> <<>>, index |-> <<>>,
              distance2 |-> <<>>]

(* Lines 314-343: the closest of the pared line_tuples.  A distance is held *)
(* as its square, which orders and equates distances exactly.               *)
ClosestAmong(p, lts) ==
    LET distances == [k \in 1..Len(lts) |-> LineDist2(lts[k][2], p)]
        w         == ArgMin(distances)
    IN  IF Len(lts) > 0
        THEN [raised      |-> "",
              match_point |-> Interpolate(lts[w][2], Project(lts[w][2], p)),
              index       |-> Some(lts[w][1]),
              distance2   |-> Some(distances[w])]
        ELSE [raised |-> "", match_point |-> None, index |-> None, distance2 |-> None]

(* Lines 294-309: `line_tuples` once pared by the index or by the search   *)
(* area; untouched when neither applies (and when the call raises).         *)
ParedLineTuples(p, ls, r, idx, truth, line_indices) ==
    IF idx # None /\ truth
    THEN IF ~Truthy(r)
         THEN LineTuples(ls)
         ELSE [k \in 1..Len(line_indices) |-> LineTuples(ls)[line_indices[k] + 1]]
    ELSE IF Truthy(r)
         THEN PareByArea(LineTuples(ls), p, r[1])
         ELSE LineTuples(ls)

ValueError ==
    [raised |-> "ValueError", match_point |-> None, index |-> None, distance2 |-> None]

(* closest_point_along_lines.  `truth` is the truth value of `sindex` (an   *)
(* index object, None excepted) and `line_indices` the hits of the index in *)
(* the order in which it yields them.                                       *)
ClosestPointAlongLines(p, ls, r, idx, truth, line_indices) ==
    IF idx # None /\ truth /\ ~Truthy(r)
    THEN ValueError
    ELSE ClosestAmong(p, ParedLineTuples(p, ls, r, idx, truth, line_indices))

(* The geometries of `lines` *)
Geometries(ls) == [k \in 1..Len(ls) |-> LineTuples(ls)[k][2]]

-----------------------------------------------------------------------------
(* Inputs *)

SeqsUpTo(S, n) == UNION { [1..k -> S] : k \in 0..n }

(* The arc lengths at which the segments of a split start, the first excepted *)
BoundaryDists(line, segs) ==
    [i \in 1..(Len(segs) - 1) |-> Project(line, segs[i + 1][1])]

-----------------------------------------------------------------------------
(* The calls *)

Init ==
    /\ op = "idle"
    /\ linestring \in LineStrings
    /\ points = <<>>
    /\ dists = <<>>
    /\ result = <<>>
    /\ prior = <<>>
    /\ search_point = <<>>
    /\ lines = <<>>
    /\ search_distance = None
    /\ sindex = None
    /\ line_tuples = <<>>
    /\ args = <<>>

CallSplitLineAtPoints ==
    /\ op = "idle"
    /\ \E pts \in SeqsUpTo(Lattice, MaxPts) :
          /\ points' = pts
          /\ result' = SplitLineAtPoints(linestring, pts)
    /\ op' = "split_line_at_points"
    /\ UNCHANGED <<linestring, dists, prior, nearVars, args>>

CallSplitLineAtDists ==
    /\ op = "idle"
    /\ \E ds \in SeqsUpTo(0..(Length(linestring) + 1), MaxPts) :
          /\ dists' = ds
          /\ result' = SplitLineAtDists(linestring, ds)
    /\ op' = "split_line_at_dists"
    /\ UNCHANGED <<linestring, points, prior, nearVars, args>>

CallSegment ==
    /\ op = "idle"
    /\ \E u \in Lattice, v \in Lattice :
          /\ points' = <<u, v>>
          /\ result' = Segment(linestring, u, v)
    /\ op' = "segment"
    /\ UNCHANGED <<linestring, dists, prior, nearVars, args>>

(* shorten_line with a distance up to the line's length; `points` shows the *)
(* two points it hands to segment                                           *)
CallShortenLine ==
    /\ op = "idle"
    /\ \E shorten_dist \in 0..Length(linestring), ends \in EndsSelectors :
          /\ args' = [shorten_dist |-> shorten_dist, ends |-> ends]
          /\ points' = IF ends = "neither" THEN <<>>
                       ELSE <<ShortenStart(linestring, shorten_dist, ends),
                              ShortenEnd(linestring, shorten_dist, ends)>>
          /\ result' = ShortenLine(linestring, shorten_dist, ends)
    /\ op' = "shorten_line"
    /\ UNCHANGED <<linestring, dists, prior, nearVars>>

(* Split again at the cut distances materialized by the split just made *)
Resplit ==
    /\ op \in {"split_line_at_points", "split_line_at_dists"}
    /\ prior' = result
    /\ dists' = BoundaryDists(linestring, result)
    /\ result' = SplitLineAtDists(linestring, dists')
    /\ op' = "resplit"
    /\ UNCHANGED <<linestring, points, nearVars, args>>

Next ==
    \/ CallSplitLineAtPoints
    \/ CallSplitLineAtDists
    \/ CallSegment
    \/ CallShortenLine
    \/ Resplit

Spec == Init /\ [][Next]_vars

-----------------------------------------------------------------------------
(* The nearest search *)

CandidateLines == UNION { LinesOfLen(n) : n \in 2..MaxLineVerts }

(* `lines` as a list of geometries, or as a list of (index, geometry) tuples *)
LineLists ==
    LET geoms == SeqsUpTo(CandidateLines, MaxLines)
    IN  { [k \in 1..Len(g) |-> Geometry(g[k])] : g \in geoms }
          \cup { [k \in 1..Len(g) |-> IndexedTuple(CallerIndex(k), g[k])] : g \in geoms }

InitNearest ==
    /\ op = "idle"
    /\ search_point \in Lattice
    /\ lines \in LineLists
    /\ search_distance = None
    /\ sindex = None
    /\ line_tuples = <<>>
    /\ args = <<>>
    /\ result = <<>>
    /\ linestring = <<>>
    /\ points = <<>>
    /\ dists = <<>>
    /\ prior = <<>>

(* An index object that defines no length is true; one that defines its     *)
(* length as the number of its entries is false when it is empty.           *)
IndexTruths(idx) == IF idx # None /\ Len(idx[1]) = 0 THEN BOOLEAN ELSE {TRUE}

CallClosestPointAlongLines ==
    /\ op = "idle"
    /\ \E r \in {None} \cup { Some(d) : d \in 0..MaxRadius },
          idx \in {None, ListSindex(Geometries(lines))} :
          /\ search_distance' = r
          /\ sindex' = idx
          /\ \E truth \in IndexTruths(idx),
                line_indices \in
                 (IF idx # None /\ Truthy(r)
                  THEN Orders(IndexHits(idx, SearchBounds(search_point, r[1])))
                  ELSE {<<>>}) :
                /\ line_tuples' = ParedLineTuples(search_point, lines, r, idx,
                                                  truth, line_indices)
                /\ result' = ClosestPointAlongLines(search_point, lines, r, idx,
                                                    truth, line_indices)
    /\ op' = "closest_point_along_lines"
    /\ UNCHANGED <<search_point, lines, splitVars, args>>

NextNearest == CallClosestPointAlongLines

SpecNearest == InitNearest /\ [][NextNearest]_vars

-----------------------------------------------------------------------------
(* Clipping a line by a polygon *)

(* The Polygons of the model: axis-parallel rectangles <<minx, miny, maxx,  *)
(* maxy>> with integer corners on and around the lattice                    *)
Polygons ==
    LET xs == (0 - PolyMargin)..(GridX + PolyMargin)
        ys == (0 - PolyMargin)..(GridY + PolyMargin)
    IN  { q \in xs \X ys \X xs \X ys : q[1] < q[3] /\ q[2] < q[4] }

(* The polygon, boundary included, covers the coordinate q *)
Covers(poly, q) ==
    poly[1] <= q[1] /\ q[1] <= poly[3] /\ poly[2] <= q[2] /\ q[2] <= poly[4]

(* The midpoint of a and b lies in the interior of the polygon *)
MidInterior(poly, a, b) ==
    /\ 2 * poly[1] < a[1] + b[1] /\ a[1] + b[1] < 2 * poly[3]
    /\ 2 * poly[2] < a[2] + b[2] /\ a[2] + b[2] < 2 * poly[4]

(* q lies on polygon.boundary *)
OnBoundary(poly, q) == Covers(poly, q) /\ ~MidInterior(poly, q, q)

(* The lattice points of the line c *)
LinePoints(c) == UNION { EdgePoints(c[i], c[i + 1]) : i \in 1..(Len(c) - 1) }

(* line.intersection(polygon.boundary), for a line that meets the boundary  *)
(* in points only                                                           *)
BoundaryPoints(c, poly) == { q \in LinePoints(c) : OnBoundary(poly, q) }

(* The line shares a stretch of positive length with the boundary; its      *)
(* intersection with the boundary is then not a collection of points        *)
RunsAlongBoundary(c, poly) ==
    \E a \in LinePoints(c), b \in LinePoints(c) :
        /\ Dist2(a, b) = 1
        /\ \E i \in 1..(Len(c) - 1) : {a, b} \subseteq EdgePoints(c[i], c[i + 1])
        /\ OnBoundary(poly, a) /\ OnBoundary(poly, b)
        /\ ~MidInterior(poly, a, b)

(* The points of S, one after the other along the line *)
RECURSIVE AlongLine(_, _)
AlongLine(c, S) ==
    IF S = {} THEN <<>>
    ELSE LET q == CHOOSE u \in S : \A v \in S : Project(c, u) <= Project(c, v)
         IN  <<q>> \o AlongLine(c, S \ {q})

(* split_line_at_intersection(linestring, polygon.boundary): the points of  *)
(* the intersection are sorted by split_line_at_points, so the order in     *)
(* which the intersection lists them does not show.                         *)
SplitLineAtIntersection(c, poly) ==
    SplitLineAtPoints(c, AlongLine(c, BoundaryPoints(c, poly)))

(* shorten_line(line, 1e-6).within(polygon): the line less a sliver at each *)
(* end has no point outside the polygon and some point in its interior.     *)
(* The polygon is convex and the line leaves its boundary where it meets    *)
(* it, so this is decided at the coordinates and the edges' midpoints.      *)
ShortenedWithin(c, poly) ==
    /\ \A i \in 1..Len(c) : Covers(poly, c[i])
    /\ \E i \in 1..(Len(c) - 1) : MidInterior(poly, c[i], c[i + 1])

(* The values clip_line_by_polygon returns *)
LineStringResult(c) == [type |-> "LineString", geoms |-> <<c>>]
MultiLineString(ls) == [type |-> "MultiLineString", geoms |-> ls]
NoGeometry == [type |-> "None", geoms |-> <<>>]

(* A clip that keeps every piece of the split *)
WithinLinesAll(split_lines, poly) == split_lines

(* Lines 782-785: the pieces that pass the containment test *)
WithinLines(split_lines, poly) ==
    SelectSeq(split_lines, LAMBDA piece : ShortenedWithin(piece, poly))

ClipLineByPolygon(line, poly) ==
    IF BoundaryPoints(line, poly) # {}
    THEN LET split_lines  == SplitLineAtIntersection(line, poly)
             within_lines == WithinLines(split_lines, poly)
         IN  IF Len(within_lines) = 1
             THEN LineStringResult(within_lines[1])
             ELSE MultiLineString(within_lines)
    ELSE IF ShortenedWithin(line, poly)
         THEN LineStringResult(line)
         ELSE NoGeometry

CallClipLineByPolygon ==
    /\ op = "idle"
    /\ \E poly \in Polygons :
          /\ ~RunsAlongBoundary(linestring, poly)
          /\ args' = [polygon |-> poly]
          /\ result' = ClipLineByPolygon(linestring, poly)
    /\ op' = "clip_line_by_polygon"
    /\ UNCHANGED <<splitVars, nearVars>>

-----------------------------------------------------------------------------
(* Azimuths of lines *)

(* The direction (x, y) has an angle of whole degrees *)
WholeDegrees(y, x) == x = 0 \/ y = 0 \/ Abs(x) = Abs(y)

(* np.degrees(np.arctan2(y, x)), for the directions of whole degrees *)
Arctan2Degrees(y, x) ==
    CASE y = 0 /\ x >= 0 -> 0
      [] y = 0 /\ x < 0  -> 180
      [] x = 0 /\ y > 0  -> 90
      [] x = 0 /\ y < 0  -> 0 - 90
      [] y > 0 /\ x > 0  -> 45
      [] y > 0 /\ x < 0  -> 135
      [] y < 0 /\ x < 0  -> 0 - 135
      [] y < 0 /\ x > 0  -> 0 - 45

(* azimuth(linestring, degrees=True) *)
Azimuth(c) ==
    LET u == Endpoints(c)[1]
        v == Endpoints(c)[2]
    IN  Arctan2Degrees(u[2] - v[2], u[1] - v[1])

(* split_line_at_vertices(linestring) *)
SplitLineAtVertices(c) == [i \in 1..(Len(c) - 1) |-> <<c[i], c[i + 1]>>]

(* cumulative_lengths of azimuth_at_distance *)
CumulativeLengths(segments) ==
    LET segment_lengths == [i \in 1..Len(segments) |-> Length(segments[i])]
        RECURSIVE Upto(_)
        Upto(i) == IF i = 0 THEN 0 ELSE segment_lengths[i] + Upto(i - 1)
    IN  [i \in 1..Len(segments) |-> Upto(i)]

(* A scan from the first entry to the last *)
RECURSIVE ScanForward(_, _, _, _)
ScanForward(cumulative_lengths, distance, i, segment_ID) ==
    IF i = 0 THEN segment_ID
    ELSE LET k == Len(cumulative_lengths) + 1 - i
         IN  ScanForward(cumulative_lengths, distance, i - 1,
                         IF cumulative_lengths[k] >= distance
                         THEN Some(k - 1) ELSE segment_ID)

(* Lines 510-512: the loop over reversed(list(enumerate(cumulative_lengths))) *)
(* from entry i down to the first; segment_ID holds a position counted from 0 *)
(* once assigned.                                                             *)
RECURSIVE ScanReversed(_, _, _, _)
ScanReversed(cumulative_lengths, distance, i, segment_ID) ==
    IF i = 0 THEN segment_ID
    ELSE ScanReversed(cumulative_lengths, distance, i - 1,
                      IF cumulative_lengths[i] >= distance
                      THEN Some(i - 1) ELSE segment_ID)

(* azimuth_at_distance(linestring, distance, degrees=True); the result also *)
(* shows the local segment_ID                                               *)
AzimuthAtDistance(c, distance) ==
    LET segments           == SplitLineAtVertices(c)
        cumulative_lengths == CumulativeLengths(segments)
        segment_ID == ScanReversed(cumulative_lengths, distance,
                                   Len(cumulative_lengths), None)
    IN  IF segment_ID = None
        THEN [raised |-> "UnboundLocalError", segment_ID |-> None, azimuth |-> None]
        ELSE [raised     |-> "",
              segment_ID |-> segment_ID,
              azimuth    |-> Some(Azimuth(segments[segment_ID[1] + 1]))]

(* The model holds angles in whole degrees: azimuth is called on the lines  *)
(* whose endpoints lie in such a direction from each other.                 *)
CallAzimuth ==
    /\ op = "idle"
    /\ LET u == Endpoints(linestring)[1]
           v == Endpoints(linestring)[2]
       IN  WholeDegrees(u[2] - v[2], u[1] - v[1])
    /\ args' = [degrees |-> TRUE]
    /\ result' = Azimuth(linestring)
    /\ op' = "azimuth"
    /\ UNCHANGED <<splitVars, nearVars>>

CallAzimuthAtDistance ==
    /\ op = "idle"
    /\ \E distance \in 0..(Length(linestring) + 1) :
          /\ args' = [distance |-> distance, degrees |-> TRUE]
          /\ result' = AzimuthAtDistance(linestring, distance)
    /\ op' = "azimuth_at_distance"
    /\ UNCHANGED <<splitVars, nearVars>>

-----------------------------------------------------------------------------
(* Points spaced along a line.  The starting point of a centered spacing is *)
(* a half-integer, so arc lengths and coordinates are held in half units    *)
(* here: the line and every distance doubled.                               *)

Doubled(c) == [i \in 1..Len(c) |-> <<2 * c[i][1], 2 * c[i][2]>>]

(* The values of `centered` the code tests for, and the two the docstring   *)
(* names                                                                    *)
Centerings == {"False", "True", "point", "space", "Point", "Space"}

(* int(ceil(length / spacing)) *)
CeilDiv(length, spacing) == (length + spacing - 1) \div spacing

(* starting_point, doubled; None when no branch of lines 400-409 assigns it *)
StartingPoint(length, spacing, centered) ==
    CASE centered = "False" -> Some(0)
      [] centered \in {"point", "True"} ->
            \* half_length - (half_length // spacing) * spacing
            Some(length - ((length \div (2 * spacing)) * (2 * spacing)))
      [] centered = "space" ->
            \* (length - (length // spacing) * spacing) / 2
            Some(length - (length \div spacing) * spacing)
      [] OTHER -> None

(* spaced_points_along_line(linestring, spacing, centered) for one          *)
(* LineString; the points are in half units                                 *)
SpacedPointsAlongLine(c, spacing, centered) ==
    LET length         == Length(c)
        n              == CeilDiv(length, spacing)
        starting_point == StartingPoint(length, spacing, centered)
    IN  IF n > 0 /\ starting_point = None
        THEN [raised |-> "UnboundLocalError", points |-> <<>>]
        ELSE [raised |-> "",
              points |-> [k \in 1..n |->
                            Interpolate(Doubled(c),
                                        starting_point[1] + (k - 1) * 2 * spacing)]]

CallSpacedPointsAlongLine ==
    /\ op = "idle"
    /\ \E spacing \in 1..MaxSpacing, centered \in Centerings :
          /\ args' = [spacing |-> spacing, centered |-> centered]
          /\ result' = SpacedPointsAlongLine(linestring, spacing, centered)
    /\ op' = "spaced_points_along_line"
    /\ UNCHANGED <<splitVars, nearVars>>

-----------------------------------------------------------------------------
(* Extending a line *)

(* Lines 78-82: the point extend_dist beyond `endpoint`, away from          *)
(* `adjacent_point`; the end segment is axis-parallel, so the sine and the  *)
(* cosine of its azimuth are -1, 0 or 1                                     *)
NewEndpoint(endpoint, adjacent_point, extend_dist) ==
    << endpoint[1] + extend_dist * Sign(endpoint[1] - adjacent_point[1]),
       endpoint[2] + extend_dist * Sign(endpoint[2] - adjacent_point[2]) >>

(* new_segments *)
NewSegments(c, extend_dist, ends) ==
    LET n     == Len(c)
        first == <<c[1], NewEndpoint(c[1], c[2], extend_dist)>>
        last  == <<c[n], NewEndpoint(c[n], c[n - 1], extend_dist)>>
    IN  CASE ends = "both"  -> <<first, last>>
          [] ends = "start" -> <<first>>
          [] ends = "end"   -> <<last>>

(* The number of line ends that meet at the coordinate q *)
NodeDegree(ls, q) ==
    Cardinality({ e \in (1..Len(ls)) \X {1, 2} :
                    (IF e[2] = 1 THEN ls[e[1]][1] ELSE ls[e[1]][Len(ls[e[1]])]) = q })

(* The pairs of lines that meet, alone, at one of their ends *)
Mergeable(ls) ==
    { m \in (1..Len(ls)) \X (1..Len(ls)) :
        /\ m[1] < m[2]
        /\ \E q \in {ls[m[1]][1], ls[m[1]][Len(ls[m[1]])]}
                       \cap {ls[m[2]][1], ls[m[2]][Len(ls[m[2]])]} :
              NodeDegree(ls, q) = 2 }

(* The lines a and b joined at a common end where only they meet, in the    *)
(* direction of a                                                           *)
Join(ls, a, b) ==
    LET q == CHOOSE u \in {a[1], a[Len(a)]} \cap {b[1], b[Len(b)]} :
                 NodeDegree(ls, u) = 2
    IN  IF a[Len(a)] = q
        THEN a \o Tail(IF b[1] = q THEN b ELSE Reverse(b))
        ELSE SubSeq(IF b[Len(b)] = q THEN b ELSE Reverse(b), 1, Len(b) - 1) \o a

(* shapely.ops.linemerge on lines none of which is a single repeated        *)
(* coordinate: lines are sewn together at every coordinate where exactly    *)
(* two line ends meet                                                       *)
RECURSIVE LineMergeLines(_)
LineMergeLines(ls) ==
    IF Mergeable(ls) = {} THEN ls
    ELSE LET m == CHOOSE x \in Mergeable(ls) :
                      \A y \in Mergeable(ls) : TupleLess(x, y) \/ x = y
             joined == Join(ls, ls[m[1]], ls[m[2]])
         IN  LineMergeLines([k \in 1..(Len(ls) - 1) |->
                                IF k = m[1] THEN joined
                                ELSE IF k < m[2] THEN ls[k] ELSE ls[k + 1]])

(* linemerge(lines): a LineString when all sews into one line, otherwise a  *)
(* MultiLineString; a line of one repeated coordinate takes no part         *)
LineMerge(ls) ==
    LET merged == LineMergeLines(SelectSeq(ls, LAMBDA l : l[1] # l[Len(l)] \/ Len(l) > 2))
    IN  IF Len(merged) = 1 THEN LineStringResult(merged[1])
        ELSE MultiLineString(merged)

(* extend_line *)
ExtendLine(c, extend_dist, ends) ==
    IF ends \notin {"both", "start", "end"}
    THEN Raised("UnboundLocalError")
    ELSE LineMerge(<<c>> \o NewSegments(c, extend_dist, ends))

CallExtendLine ==
    /\ op = "idle"
    /\ \E extend_dist \in 0..MaxExtend, ends \in EndsSelectors :
          /\ args' = [extend_dist |-> extend_dist, ends |-> ends]
          /\ result' = ExtendLine(linestring, extend_dist, ends)
    /\ op' = "extend_line"
    /\ UNCHANGED <<splitVars, nearVars>>

-----------------------------------------------------------------------------
(* Splitting the line of one row of a GeoDataFrame into pieces of equal     *)
(* length.  The cut points are in half units, and so are the line that is   *)
(* split and its pieces.                                                    *)

(* linemerge(MultiLineString([a, b])) of two neighbouring pieces *)
MergedPieces(a, b) == LineMerge(<<a, b>>).geoms[1]

(* Lines 593-596: the first piece, if shorter than min_length, is merged    *)
(* into the second                                                          *)
MergeFirst(segment_geometries, min_length) ==
    IF Length(segment_geometries[1]) < 2 * min_length
    THEN <<MergedPieces(segment_geometries[1], segment_geometries[2])>>
             \o SubSeq(segment_geometries, 3, Len(segment_geometries))
    ELSE segment_geometries

(* Lines 597-600: the last piece, if shorter than min_length, is merged     *)
(* into the one before it; there is none before it when a single piece is   *)
(* left, and segment_geometries[-2] raises                                  *)
MergeLast(segment_geometries, min_length) ==
    LET n == Len(segment_geometries)
    IN  IF Length(segment_geometries[n]) < 2 * min_length
        THEN IF n < 2
             THEN [raised |-> "IndexError", geoms |-> <<>>]
             ELSE [raised |-> "",
                   geoms  |-> SubSeq(segment_geometries, 1, n - 2)
                                \o <<MergedPieces(segment_geometries[n - 1],
                                                  segment_geometries[n])>>]
        ELSE [raised |-> "", geoms |-> segment_geometries]

(* Lines 585-600 of gdf_split_lines for one row: the geometries of the      *)
(* row's children                                                           *)
GdfSplitLinesRow(c, segment_length, centered, min_length) ==
    LET spaced == SpacedPointsAlongLine(c, segment_length, centered)
        cut_points == Tail(spaced.points)    \* points[1:]
        segment_geometries == SplitLineAtPoints(Doubled(c), cut_points)
    IN  IF spaced.raised # ""
        THEN [raised |-> spaced.raised, geoms |-> <<>>]
        ELSE IF Len(segment_geometries) > 1
             THEN MergeLast(MergeFirst(segment_geometries, min_length), min_length)
             ELSE [raised |-> "", geoms |-> segment_geometries]

CallGdfSplitLines ==
    /\ op = "idle"
    /\ \E segment_length \in 1..MaxSpacing, centered \in Centerings,
          min_length \in 0..MaxMinLength :
          /\ args' = [segment_length |-> segment_length, centered |-> centered,
                      min_length |-> min_length]
          /\ result' = GdfSplitLinesRow(linestring, segment_length, centered,
                                        min_length)
    /\ op' = "gdf_split_lines"
    /\ UNCHANGED <<splitVars, nearVars>>

NextMeasure ==
    \/ CallClipLineByPolygon
    \/ CallAzimuth
    \/ CallAzimuthAtDistance
    \/ CallSpacedPointsAlongLine
    \/ CallExtendLine
    \/ CallGdfSplitLines

SpecMeasure == Init /\ [][NextMeasure]_vars

-----------------------------------------------------------------------------
(* Azimuths as numbers: whole degrees *)

Angles == { AngleStep * k : k \in (0 - MaxAngleSteps)..MaxAngleSteps }

(* normalize_azimuth; Python's % with a positive modulus is never negative, *)
(* as is TLA+'s                                                             *)
NormalizeAzimuth(azimuth, zero_center) ==
    LET wrapped == IF azimuth > 360 \/ azimuth < 0 THEN azimuth % 360 ELSE azimuth
    IN  IF zero_center /\ wrapped > 180 THEN wrapped - 360 ELSE wrapped

(* _diff of azimuth_difference *)
Diff(a, b) ==
    LET d1 == a - b
        d2 == IF d1 > 180 THEN d1 - 360 ELSE d1
        d3 == IF d2 < 0 - 180 THEN d2 + 360 ELSE d2
    IN  Abs(d3)

(* A difference that never looks at the rotated azimuth *)
AzimuthDifferenceDirected(azimuth_a, azimuth_b, directional) ==
    Diff(NormalizeAzimuth(azimuth_a, TRUE), NormalizeAzimuth(azimuth_b, TRUE))

(* azimuth_difference *)
AzimuthDifference(azimuth_a, azimuth_b, directional) ==
    LET a == NormalizeAzimuth(azimuth_a, TRUE)
        b == NormalizeAzimuth(azimuth_b, TRUE)
        difference == Diff(a, b)
        rotated_difference == Diff(a + 180, b)
    IN  IF ~directional THEN Min(difference, rotated_difference) ELSE difference

InitAngles ==
    /\ op = "idle"
    /\ args = <<>>
    /\ result = <<>>
    /\ linestring = <<>>
    /\ points = <<>>
    /\ dists = <<>>
    /\ prior = <<>>
    /\ search_point = <<>>
    /\ lines = <<>>
    /\ search_distance = None
    /\ sindex = None
    /\ line_tuples = <<>>

CallNormalizeAzimuth ==
    /\ op = "idle"
    /\ \E azimuth \in Angles, zero_center \in BOOLEAN :
          /\ args' = [azimuth |-> azimuth, zero_center |-> zero_center]
          /\ result' = NormalizeAzimuth(azimuth, zero_center)
    /\ op' = "normalize_azimuth"
    /\ UNCHANGED <<splitVars, nearVars>>

CallAzimuthDifference ==
    /\ op = "idle"
    /\ \E azimuth_a \in Angles, azimuth_b \in Angles, directional \in BOOLEAN :
          /\ args' = [azimuth_a |-> azimuth_a, azimuth_b |-> azimuth_b,
                      directional |-> directional]
          /\ result' = AzimuthDifference(azimuth_a, azimuth_b, directional)
    /\ op' = "azimuth_difference"
    /\ UNCHANGED <<splitVars, nearVars>>

NextAngles ==
    \/ CallNormalizeAzimuth
    \/ CallAzimuthDifference

SpecAngles == InitAngles /\ [][NextAngles]_vars

-----------------------------------------------------------------------------
(* Vocabulary of the properties *)

Last(s) == s[Len(s)]

AllOnLine(line, pts) == \A i \in 1..Len(pts) : OnLine(line, pts[i])

(* A segment all of whose coordinates are the same coordinate *)
Degenerate(seg) == \A i \in 1..Len(seg) : seg[i] = seg[1]

Vertices(segs) == UNION { { segs[i][k] : k \in 1..Len(segs[i]) } : i \in 1..Len(segs) }

(* A supplied point coincides with the start, the end or another supplied point *)
CoincidentCut(line, pts) ==
    \/ \E i \in 1..Len(pts) : pts[i] = line[1] \/ pts[i] = Last(line)
    \/ \E i, j \in 1..Len(pts) : i # j /\ pts[i] = pts[j]

(* The supplied points are on the line at pairwise distinct distances strictly *)
(* between 0 and the length of the line                                       *)
ProperCuts(line, pts) ==
    /\ AllOnLine(line, pts)
    /\ \A i \in 1..Len(pts) :
          Project(line, pts[i]) > 0 /\ Project(line, pts[i]) < Length(line)
    /\ \A i, j \in 1..Len(pts) : i # j => Project(line, pts[i]) # Project(line, pts[j])

(* Entries <<dist, coord, cut>> in first-seen order, and their stable sort by *)
(* dist alone                                                                  *)
Entries(line, pts) ==
    [i \in 1..Len(SplitCoords(line, pts)) |->
        <<SplitDists(line, pts)[i], SplitCoords(line, pts)[i], SplitCuts(line, pts)[i]>>]

RECURSIVE InsertByDist(_, _)
InsertByDist(s, x) ==
    IF s = <<>> THEN <<x>>
    ELSE IF x[1] < Head(s)[1] THEN <<x>> \o s
    ELSE <<Head(s)>> \o InsertByDist(Tail(s), x)

RECURSIVE StableByDist(_)
StableByDist(s) ==
    IF s = <<>> THEN <<>>
    ELSE InsertByDist(StableByDist(SubSeq(s, 1, Len(s) - 1)), s[Len(s)])

-----------------------------------------------------------------------------
(* C1: split_line_at_points with an empty point list returns exactly one     *)
(* segment whose coordinates are those of the input line, closed lines       *)
(* included.                                                                  *)
C1_EmptySplitIsIdentity ==
    (op = "split_line_at_points" /\ points = <<>>) => result = <<linestring>>

C1_Witness ==
    /\ op = "split_line_at_points" /\ points = <<>>
    /\ linestring[1] = Last(linestring)
    /\ result = <<linestring>>

(* C2 (as claimed): for every list of supplied points the lengths of the     *)
(* returned segments sum to the length of the line.                          *)
C2_LengthConservedAnyPoints ==
    op = "split_line_at_points" => TotalLength(result) = GeomLength(linestring)

(* C2 (amended): for every list of supplied points that lie on the line the  *)
(* lengths of the returned segments sum to the length of the line.           *)
C2_LengthConservedOnLine ==
    (op = "split_line_at_points" /\ AllOnLine(linestring, points))
        => TotalLength(result) = GeomLength(linestring)

C2_Witness ==
    /\ op = "split_line_at_points" /\ Len(points) = 2
    /\ AllOnLine(linestring, points)
    /\ Len(linestring) > 2
    /\ TotalLength(result) = GeomLength(linestring)

(* C3: segment(line, u, v), for u and v on the line, starts at u and ends at *)
(* v, whether u precedes or follows v along the line.                        *)
C3_SegmentRunsFromUToV ==
    (op = "segment" /\ AllOnLine(linestring, points))
        => result[1] = points[1] /\ Last(result) = points[2]

C3_Witness ==
    /\ op = "segment" /\ AllOnLine(linestring, points)
    /\ Project(linestring, points[1]) > Project(linestring, points[2])
    /\ result[1] = points[1] /\ Last(result) = points[2]

(* C4 (as claimed): split_line_at_points never returns a zero-length segment. *)
C4_NoDegenerateSegment ==
    op = "split_line_at_points" => \A i \in 1..Len(result) : ~Degenerate(result[i])

(* C4 (amended): with the supplied points on the line, a supplied point that *)
(* coincides with the start, the end or another supplied point is not        *)
(* dropped but yields a zero-length segment, and a zero-length segment is    *)
(* returned only in that case.                                                *)
C4_DegenerateIffCoincident ==
    (op = "split_line_at_points" /\ AllOnLine(linestring, points)) =>
        (CoincidentCut(linestring, points)
            <=> \E i \in 1..Len(result) : Degenerate(result[i]))

C4_Witness ==
    /\ op = "split_line_at_points"
    /\ Len(points) = 2 /\ points[1] = points[2]
    /\ points[1] # linestring[1] /\ points[1] # Last(linestring)
    /\ \E i \in 1..Len(result) : Degenerate(result[i])

(* C5: the entries are stable-sorted by projected distance only, and the     *)
(* coordinate list and the cut-flag list stay aligned entry by entry.        *)
C5_StableSortAligned ==
    op = "split_line_at_points" =>
        LET srt == StableByDist(Entries(linestring, points))
        IN  /\ SortedCoords(linestring, points)
                 = [i \in 1..Len(srt) |-> srt[i][2]] \o <<Last(linestring)>>
            /\ SortedCuts(linestring, points)
                 = [i \in 1..Len(srt) |-> srt[i][3]] \o <<1>>

(* C6: k points on the line at distinct distances strictly inside it give    *)
(* k+1 segments in increasing arc-length order, from the start of the line   *)
(* to its end, each ending where the next starts, at the supplied points.    *)
C6_ProperCutsGiveKPlusOne ==
    (op = "split_line_at_points" /\ ProperCuts(linestring, points)) =>
        /\ Len(result) = Len(points) + 1
        /\ result[1][1] = linestring[1]
        /\ Last(Last(result)) = Last(linestring)
        /\ \A i \in 1..(Len(result) - 1) :
              /\ Last(result[i]) = result[i + 1][1]
              /\ \E k \in 1..Len(points) : points[k] = result[i + 1][1]
        /\ \A i \in 1..(Len(result) - 2) :
              Project(linestring, result[i + 1][1]) < Project(linestring, result[i + 2][1])
        /\ \A k \in 1..Len(points) :
              \E i \in 1..(Len(result) - 1) : points[k] = result[i + 1][1]

C6_Witness ==
    /\ op = "split_line_at_points" /\ ProperCuts(linestring, points)
    /\ Len(points) = 2
    /\ Project(linestring, points[1]) > Project(linestring, points[2])
    /\ Len(result) = 3

(* C7: splitting again at the arc-length distances of the boundaries of a    *)
(* prior split (of supplied points on the line, or of distances) returns the *)
(* same segments.                                                             *)
C7_ResplitIdentical ==
    (op = "resplit" /\ AllOnLine(linestring, points)) => result = prior

C7_Witness ==
    /\ op = "resplit" /\ AllOnLine(linestring, points)
    /\ Len(prior) = 3 /\ ~Degenerate(prior[2])
    /\ result = prior

(* C8 (as claimed): every vertex of every returned segment lies on the line. *)
C8_VerticesOnLine ==
    op = "split_line_at_points" => \A v \in Vertices(result) : OnLine(linestring, v)

(* C8 (amended): a supplied point is placed by its projected distance but    *)
(* keeps its own coordinate: every supplied coordinate is a vertex of a      *)
(* returned segment, and every such vertex is a vertex of the line or a      *)
(* supplied coordinate.                                                       *)
C8_SuppliedCoordinatesKept ==
    op = "split_line_at_points" =>
        /\ \A i \in 1..Len(points) : points[i] \in Vertices(result)
        /\ \A v \in Vertices(result) :
              \/ \E k \in 1..Len(linestring) : v = linestring[k]
              \/ \E i \in 1..Len(points) : v = points[i]

C8_Witness ==
    /\ op = "split_line_at_points"
    /\ \E i \in 1..Len(points) :
          ~OnLine(linestring, points[i]) /\ points[i] \in Vertices(result)

(* The unindexed, radius-less search over the same candidates *)
FullSearch == ClosestPointAlongLines(search_point, lines, None, None, TRUE, <<>>)

IsMatch(res) == res.raised = "" /\ res.index # None

(* C9: with an index built by list_sindex over the same candidates and a     *)
(* radius at least the distance to the closest candidate, the search returns *)
(* the winning identifier and distance of the unindexed, radius-less search. *)
C9_IndexedSearchSameWinner ==
    ( /\ op = "closest_point_along_lines"
      /\ sindex # None /\ search_distance # None
      /\ IsMatch(FullSearch)
      /\ FullSearch.distance2[1] <= search_distance[1] * search_distance[1] )
    => /\ IsMatch(result)
       /\ result.index = FullSearch.index
       /\ result.distance2 = FullSearch.distance2

(* C10: when a (positive) search radius is given, with or without an index,  *)
(* a match is returned only if the winning line lies within the radius of    *)
(* the search point, and no match is returned if no candidate does.          *)
C10_MatchWithinRadius ==
    (op = "closest_point_along_lines" /\ Truthy(search_distance)) =>
        /\ IsMatch(result)
              => result.distance2[1] <= search_distance[1] * search_distance[1]
        /\ (\A k \in 1..Len(lines) :
               LineDist2(lines[k].geom, search_point)
                   > search_distance[1] * search_distance[1])
              => ~IsMatch(result)

(* The distance (squared) from the search point to the k-th pared candidate *)
ParedDist2(k) == LineDist2(line_tuples[k][2], search_point)

C12_IndexWithoutRadiusRaises ==
    (op = "closest_point_along_lines" /\ sindex # None /\ search_distance = None)
        => result = ValueError

(* No candidate passes the filter the call applies *)
NoSurvivor ==
    \/ Len(lines) = 0
    \/ /\ Truthy(search_distance)
       /\ sindex # None
       /\ IndexHits(sindex, SearchBounds(search_point, search_distance[1])) = {}
    \/ /\ Truthy(search_distance)
       /\ sindex = None
       /\ \A k \in 1..Len(lines) :
              ~IntersectsSearchArea(lines[k].geom, search_point, search_distance[1])

(* C13: a call that gets as far as filtering (one that does not pass an      *)
(* index without a radius) and in which no candidate survives the filter     *)
(* returns (None, None, None) and does not raise.                            *)
C13_NoSurvivorNoMatch ==
    ( /\ op = "closest_point_along_lines"
      /\ ~(sindex # None /\ ~Truthy(search_distance))
      /\ NoSurvivor )
    => /\ result.raised = ""
       /\ result.match_point = None
       /\ result.index = None
       /\ result.distance2 = None

C13_Witness ==
    /\ op = "closest_point_along_lines"
    /\ Len(lines) > 0
    /\ Truthy(search_distance)
    /\ NoSurvivor
    /\ result.raised = "" /\ result.index = None

(* The coordinate at arc length d of the line of the call *)
At(d) == Interpolate(linestring, d)

(* The unit stretch of the line from arc length d lies inside the polygon *)
InsideFrom(d) == MidInterior(args.polygon, At(d), At(d + 1))

(* The arc lengths at which a stretch of the line inside the polygon begins *)
InsideStarts ==
    { d \in 0..(Length(linestring) - 1) :
        InsideFrom(d) /\ (d = 0 \/ ~InsideFrom(d - 1)) }

(* C14: clip_line_by_polygon returns nothing when no portion of the line is  *)
(* interior to the polygon, a single LineString when exactly one portion is, *)
(* and a MultiLineString only when two or more are.                          *)
C14_ClipCardinality ==
    (op = "clip_line_by_polygon") =>
        /\ Cardinality(InsideStarts) = 0 => result = NoGeometry
        /\ Cardinality(InsideStarts) = 1 => result.type = "LineString"
        /\ result.type = "MultiLineString" => Cardinality(InsideStarts) >= 2

(* The unit stretches {a, b} of the line c *)
UnitEdges(c) ==
    { {Interpolate(c, d), Interpolate(c, d + 1)} : d \in 0..(Length(c) - 1) }

(* C15: when the line meets the polygon boundary, every returned piece runs  *)
(* inside the polygon between two split positions (boundary intersection     *)
(* points or ends of the line), every stretch of the line inside the polygon *)
(* belongs to a returned piece, and the pieces come in line order.           *)
C15_ClipKeepsInsidePieces ==
    ( /\ op = "clip_line_by_polygon"
      /\ BoundaryPoints(linestring, args.polygon) # {} )
    => LET pieces == result.geoms
           cuts   == BoundaryPoints(linestring, args.polygon)
                       \cup {linestring[1], Last(linestring)}
       IN  /\ \A k \in 1..Len(pieces) :
                 /\ Length(pieces[k]) > 0
                 /\ pieces[k][1] \in cuts /\ Last(pieces[k]) \in cuts
                 /\ UnitEdges(pieces[k]) \subseteq UnitEdges(linestring)
                 /\ \A e \in UnitEdges(pieces[k]) :
                       \E a \in e, b \in e :
                           a # b /\ MidInterior(args.polygon, a, b)
           /\ \A d \in 0..(Length(linestring) - 1) :
                 InsideFrom(d) =>
                     \E k \in 1..Len(pieces) : {At(d), At(d + 1)} \in UnitEdges(pieces[k])
           /\ \A k \in 1..(Len(pieces) - 1) :
                 Project(linestring, pieces[k][1])
                     < Project(linestring, pieces[k + 1][1])

C15_Witness ==
    /\ op = "clip_line_by_polygon"
    /\ linestring = <<<<0, 0>>, <<2, 0>>>>
    /\ args.polygon = <<1, 0 - 1, 3, 1>>
    /\ result = LineStringResult(<<<<1, 0>>, <<2, 0>>>>)

(* The position, counted from 0, of the first and of the last vertex-to-     *)
(* vertex segment of the line whose cumulative length reaches d              *)
FirstReaching(d) ==
    CHOOSE i \in 0..(Len(linestring) - 2) :
        /\ CumLen(linestring, i + 2) >= d
        /\ \A j \in 0..(i - 1) : CumLen(linestring, j + 2) < d

LastReaching(d) ==
    CHOOSE i \in 0..(Len(linestring) - 2) :
        /\ CumLen(linestring, i + 2) >= d
        /\ \A j \in (i + 1)..(Len(linestring) - 2) : CumLen(linestring, j + 2) < d

(* The distance of the call is the arc length at the interior vertex k *)
AtInteriorVertex(k) ==
    /\ 1 < k /\ k < Len(linestring)
    /\ args.distance = CumLen(linestring, k)

(* C16 as claimed: azimuth_at_distance selects the last vertex-to-vertex     *)
(* segment whose cumulative length is >= distance, and a distance at an      *)
(* interior vertex resolves to the segment that starts at that vertex.       *)
C16_LastSegmentReaching ==
    (op = "azimuth_at_distance" /\ args.distance <= Length(linestring)) =>
        /\ result.segment_ID = Some(LastReaching(args.distance))
        /\ \A k \in 1..Len(linestring) :
              AtInteriorVertex(k) => result.segment_ID = Some(k - 1)

(* C16 amended: for a distance within the line's length azimuth_at_distance  *)
(* selects the first vertex-to-vertex segment whose cumulative length is >=  *)
(* distance and returns its azimuth, so a distance at an interior vertex     *)
(* resolves to the segment that ends at that vertex.                         *)
C16_FirstSegmentReaching ==
    (op = "azimuth_at_distance" /\ args.distance <= Length(linestring)) =>
        /\ result.raised = ""
        /\ result.segment_ID = Some(FirstReaching(args.distance))
        /\ result.azimuth =
              Some(Azimuth(<<linestring[FirstReaching(args.distance) + 1],
                             linestring[FirstReaching(args.distance) + 2]>>))
        /\ \A k \in 1..Len(linestring) :
              AtInteriorVertex(k) => result.segment_ID = Some(k - 2)

C16_Witness ==
    /\ op = "azimuth_at_distance"
    /\ \E k \in 1..Len(linestring) :
          AtInteriorVertex(k) /\ result.segment_ID = Some(k - 2)

(* C17: azimuth(linestring) is the bearing from the first endpoint to the    *)
(* last, clockwise from north, arctan2(dx, dy): 0 degrees for the line from  *)
(* (0,0) to (0,1) and 90 degrees for the line from (0,0) to (1,0).           *)
C17_AzimuthIsBearing ==
    (op = "azimuth") =>
        LET u == linestring[1]
            v == Last(linestring)
        IN  /\ result = Arctan2Degrees(v[1] - u[1], v[2] - u[2])
            /\ (u = <<0, 0>> /\ v = <<0, 1>>) => result = 0
            /\ (u = <<0, 0>> /\ v = <<1, 0>>) => result = 90

(* The angles a and b differ by whole turns *)
Congruent(a, b) == (a - b) % 360 = 0

(* C18: normalize_azimuth returns an angle congruent to its input modulo     *)
(* 360, in [0, 360) without zero_center and in [-180, 180] with it.          *)
C18_NormalizedHalfOpen ==
    (op = "normalize_azimuth") =>
        /\ Congruent(result, args.azimuth)
        /\ ~args.zero_center => (0 <= result /\ result < 360)
        /\ args.zero_center => (0 - 180 <= result /\ result <= 180)

(* The smallest rotation that takes the direction a to the direction b *)
Rotation(a, b) == Min((a - b) % 360, (b - a) % 360)

(* C19: azimuth_difference is the smallest rotational difference of the two  *)
(* azimuths, in [0, 180]; with directional=False it is the smaller of that   *)
(* and the difference after one azimuth is rotated by 180 degrees, in        *)
(* [0, 90], so that (10, 190) gives 0; swapping the azimuths does not change *)
(* the result.                                                               *)
C19_SmallestRotation ==
    (op = "azimuth_difference") =>
        LET a == args.azimuth_a
            b == args.azimuth_b
        IN  /\ args.directional =>
                  /\ result = Rotation(a, b)
                  /\ 0 <= result /\ result <= 180
            /\ ~args.directional =>
                  /\ result = Min(Rotation(a, b), Rotation(a + 180, b))
                  /\ 0 <= result /\ result <= 90
                  /\ (a = 10 /\ b = 190) => result = 0
            /\ result = AzimuthDifference(b, a, args.directional)

C19_Witness ==
    /\ op = "azimuth_difference"
    /\ args = [azimuth_a |-> 10, azimuth_b |-> 190, directional |-> FALSE]
    /\ result = 0

(* The arc length, in half units, at which the k-th generated point lies *)
ArcAt(k) == Project(Doubled(linestring), result.points[k])

(* C20: spaced_points_along_line generates ceil(length / spacing) points     *)
(* and, for the start-aligned, the point-centered and the space-centered     *)
(* policy, consecutive points are exactly `spacing` apart in arc length      *)
(* along the line; with start alignment the first point is at distance 0.    *)
C20_UniformSpacing ==
    ( /\ op = "spaced_points_along_line"
      /\ args.centered \in {"False", "True", "point", "space"} )
    => /\ result.raised = ""
       /\ Len(result.points) = CeilDiv(Length(linestring), args.spacing)
       /\ \A k \in 1..(Len(result.points) - 1) :
             ArcAt(k + 1) - ArcAt(k) = 2 * args.spacing
       /\ args.centered = "False" => ArcAt(1) = 0

(* The midpoint of the line of the call, in half units *)
MidpointDoubled == Interpolate(Doubled(linestring), Length(linestring))

(* C21: with point centering one of the generated points is the midpoint of  *)
(* the line; with space centering the midpoint is the centre of the gap      *)
(* between two consecutive generated points and is not a generated point.    *)
C21_CenteredOnMidpoint ==
    (op = "spaced_points_along_line" /\ result.raised = "") =>
        /\ args.centered \in {"point", "True"} =>
              \E k \in 1..Len(result.points) : result.points[k] = MidpointDoubled
        /\ args.centered = "space" =>
              /\ \E k \in 1..(Len(result.points) - 1) :
                    ArcAt(k) + ArcAt(k + 1) = 2 * Length(linestring)
              /\ \A k \in 1..Len(result.points) : result.points[k] # MidpointDoubled

(* C22: extend_line never returns a MultiLineString: when the line and its   *)
(* extensions do not merge into one line, as with an extension of length 0,  *)
(* the call raises and returns no geometry.                                  *)
C22_ExtendFailsUnlessOneLine ==
    (op = "extend_line" /\ args.ends \in {"both", "start", "end"}) =>
        /\ result.type # "MultiLineString"
        /\ args.extend_dist = 0 => result.type \notin {"LineString", "MultiLineString"}

(* C23: split_line_at_points returns len(points) + 1 segments for every list *)
(* of points, coincident points included, so the piece at index 1 of the     *)
(* split that segment and shorten_line make at two points on the line exists *)
(* and runs between those two points.                                        *)
C23_KPlusOneSegments ==
    /\ op = "split_line_at_points" => Len(result) = Len(points) + 1
    /\ ( /\ op \in {"segment", "shorten_line"}
         /\ Len(points) = 2
         /\ AllOnLine(linestring, points) )
       => LET pieces == SplitLineAtPoints(linestring, points)
          IN  /\ Len(pieces) = 3
              /\ {pieces[2][1], Last(pieces[2])} = {points[1], points[2]}
              /\ result \in {pieces[2], Reverse(pieces[2])}

C23_Witness ==
    /\ op = "split_line_at_points"
    /\ Len(points) = 2 /\ Len(linestring) > 2
    /\ points[1] = points[2]
    /\ points[1] \in {linestring[1], linestring[2], Last(linestring)}
    /\ Len(result) = 3

(* The sum of the lengths of the lines of a list *)
RECURSIVE SumLength(_)
SumLength(ls) == IF ls = <<>> THEN 0 ELSE Length(Head(ls)) + SumLength(Tail(ls))

(* C24: for every line, segment_length, centering the code knows and         *)
(* min_length >= 0, the processing of a row by gdf_split_lines raises        *)
(* nothing and yields at least one child, the children's lengths summing to  *)
(* the length of the line.                                                   *)
C24_RowSplitCompletes ==
    ( /\ op = "gdf_split_lines"
      /\ args.centered \in {"False", "True", "point", "space"} )
    => /\ result.raised = ""
       /\ Len(result.geoms) >= 1
       /\ SumLength(result.geoms) = 2 * Length(linestring)

=============================================================================
